---- MODULE Spec2Model ----
(***************************************************************************)
(* The live assessment session engine of cehpoint-ai-recruiter:            *)
(* src/src/components/InterviewScreen.tsx (the InterviewScreen component)  *)
(* and the App shell that receives its result (src/unnamed/part_009).      *)
(*                                                                         *)
(* The component is one cooperative event loop.  Every callback of the     *)
(* code (a button click, a transport callback, a timer, an animation       *)
(* frame, the continuation of an await) is one action.  The handlers are   *)
(* written as functions from a state record to a state record, so that a   *)
(* handler that calls another handler is the composition of the two, and   *)
(* the React effects that run after a state change are applied at the end  *)
(* of every action (Commit).                                               *)
(***************************************************************************)
EXTENDS Integers, Sequences, FiniteSets, TLC

(***************************************************************************)
(* Bounds of the model.                                                    *)
(***************************************************************************)
\* connect attempts (ai.live.connect calls) in one run
MaxConn == 4
\* seconds of the time budget; stands for useState(600), scaled down
TimeBudget == 1
\* notifyResult function calls the agent issues in one run
MaxNotify == 2
\* visibilitychange events with document.hidden in one run
MaxHidden == 4
\* the strike counter is followed up to this value
MaxStrikes == 3
\* agent audio buffers playing at once
MaxSources == 2
\* agent audio messages being decoded at once
MaxDecoding == 1
\* the audio clock runs up to MaxTime; a decoded buffer lasts 1..MaxDur
MaxTime == 2
MaxDur == 1
\* characters of transcription the agent sends in a session
MaxText == 3
\* frames the script processor delivers in a session
MaxFrames == 2
\* ticks the clock of the save-interview function advances
MaxNow == 3
\* ticks of that clock in one window of the rate limit
TicksPerWindow == 2
\* forced-fail messages of one silence the model follows
MaxFails == 2

(***************************************************************************)
(* Constants of the program.                                               *)
(***************************************************************************)
\* onclose: Date.now() - connectStartTimeRef.current < 1000
FastCloseMs == 1000
\* handleDisconnect: retryCountRef.current < 3
RetryLimit == 3
\* handleDisconnect: Math.min(1000 * Math.pow(2, n), 5000)
BackoffBaseMs == 1000
BackoffCapMs == 5000
\* Silence Monitor: timeSinceSpeech > 8000, checked every 1000 ms
SilenceThresholdMs == 8000
SecondMs == 1000
\* Silence Monitor: strikeCountRef.current >= 3
StrikeLimit == 3
\* uploadVideoToCloudinary: const maxRetries = 3
maxRetries == 3
\* checkRateLimit: the window of 60 * 1000 ms, and data.count >= 5
WindowMs == 60000
RateLimit == 5
\* the length of a tick of the clock of the save-interview function
TickMs == WindowMs \div TicksPerWindow
\* handleVisibilityChange: tabSwitchCount >= 3
TabSwitchLimit == 3

Min(a, b) == IF a < b THEN a ELSE b

\* what the agent may pass to notifyResult
Decisions ==
    { [passed |-> TRUE,  reason |-> "Shortlisted"],
      [passed |-> FALSE, reason |-> "Unresponsive"] }

\* the reasons the component itself passes to handleEndSession
UserTerminated == "User terminated"
SecurityReason == "Interview terminated: Suspicious activity detected"

\* the texts of setErrorMsg
MsgRejected == "Connection rejected. Please check API Key or Network."
MsgLost == "Connection lost. Please reload."
MsgMedia == "Camera/Mic Access Denied"
NoMsg == "null"

ConnIds == 1..MaxConn

VARIABLES
    \* App (part_009)
    appState,           \* "INTERVIEW" | "RESULT"
    results,            \* the results handed to onComplete, in order
    \* React state of InterviewScreen
    isSessionActive,
    connectionState,
    timeLeft,
    showContactOverlay,
    errorMsg,
    \* refs
    isIntentionalClose, \* isIntentionalCloseRef
    session,            \* sessionRef: 0 is null, else the connection it wraps
    retryCount,         \* retryCountRef
    retryRefPending,    \* the timer stored in retryTimeoutRef has not fired yet
    hasCalledNotify,    \* hasCalledNotifyRef
    pendingDecision,    \* { passed, reason } of the call that set hasCalledNotifyRef
    ignoredCall,        \* { passed, reason } of the last call ignored as a duplicate
    strikeCount,        \* strikeCountRef
    isAiSpeaking,       \* isAiSpeakingRef
    mediaRecorder,      \* mediaRecorderRef: "null" | "recording" | "inactive"
    stream,             \* streamRef is set
    audioContext,       \* audioContextRef is set
    sources,            \* size of sourcesRef
    silenceInterval,    \* the interval of silenceCheckIntervalRef is running
    vizLoop,            \* a requestAnimationFrame(updateVisualizers) is pending
    \* time, as the code observes it
    connectAge,         \* Date.now() - connectStartTimeRef, in ms, up to FastCloseMs
    sinceSpeech,        \* Date.now() - lastUserSpeechTimeRef, in s, up to threshold + 1
    \* the environment and the callbacks in flight
    mediaPending,       \* getUserMedia has not settled yet
    conn,               \* state of the transport of each connect attempt
    nconn,              \* connect attempts made
    retryTimers,        \* delays of the pending setTimeout(connectToGemini, delay),
                        \* in the order they were set
    finalizeTimers,     \* pending setTimeout(finalizeEndSession(passed, reason), 500)
    decoding,           \* handleServerMessage calls suspended in await decodeAudioData
    tabSwitchCount,     \* tabSwitchCount of the visibility effect
    notifyCount,        \* notifyResult calls the agent has issued
    timeUpSent,         \* time-limit messages sent (counted up to 2)
    lastSent,           \* the last silence escalation sent on the transport
    clock,              \* audioContext.currentTime, in buffer-length units
    nextStartTime,      \* nextStartTimeRef
    scheduled,          \* the last source.start: start, end, flushed since
    currentInput,       \* currentInputRef, a sequence of characters
    currentAi,          \* currentAiRef
    transcript,         \* transcriptRef, without the timestamps
    emitted,            \* the transcript handed to the last onComplete
    textReceived,       \* characters of transcription received so far
    noiseGate,          \* the onaudioprocess of the build has the RMS gate
    framesCaptured,     \* the number of onaudioprocess events so far
    framesHanded,       \* the number of calls of sendRealtimeInput so far
    lastFrame,          \* what became of the last frame: "none", "skipped", "gated", "sent", "threw"
    videoChunks,        \* videoChunksRef holds at least one chunk
    recordedVideoBlob,  \* recordedVideoBlobRef holds a blob
    stopPending,        \* the recorder was stopped and its stop event has not fired yet
    emittedVideo,       \* the videoBlob handed to the last onComplete: "none", "blob", "absent"
    acked,              \* the call whose sendToolResponse was sent, NoDecision when none was
    upload,             \* uploadVideoToCloudinary: phase, attempt, responses so far, delays waited, result
    requestCounts,      \* save-interview.js requestCounts: for each IP its entry, count 0 when it has none
    now,                \* Date.now() of the save-interview function, in ticks of TickMs
    granted             \* for each IP and tick, the requests checkRateLimit let through

vars ==
    << appState, results, isSessionActive, connectionState, timeLeft,
       showContactOverlay, errorMsg, isIntentionalClose, session, retryCount,
       retryRefPending, hasCalledNotify, pendingDecision, ignoredCall,
       strikeCount, isAiSpeaking,
       mediaRecorder, stream, audioContext, sources, silenceInterval, vizLoop,
       connectAge, sinceSpeech, mediaPending, conn, nconn, retryTimers,
       finalizeTimers, decoding, tabSwitchCount, notifyCount,
       timeUpSent, lastSent,
       clock,
       nextStartTime,
       scheduled,
       currentInput,
       currentAi,
       transcript,
       emitted,
       textReceived,
       noiseGate,
       framesCaptured,
       framesHanded,
       lastFrame,
       videoChunks,
       recordedVideoBlob,
       stopPending,
       emittedVideo,
       acked,
       upload,
       requestCounts,
       now,
       granted >>

\* the current state as one record: what a handler reads and returns
St ==
    [ appState |-> appState, results |-> results,
      isSessionActive |-> isSessionActive, connectionState |-> connectionState,
      timeLeft |-> timeLeft, showContactOverlay |-> showContactOverlay,
      errorMsg |-> errorMsg, isIntentionalClose |-> isIntentionalClose,
      session |-> session, retryCount |-> retryCount,
      retryRefPending |-> retryRefPending, hasCalledNotify |-> hasCalledNotify,
      pendingDecision |-> pendingDecision, ignoredCall |-> ignoredCall,
      strikeCount |-> strikeCount, isAiSpeaking |-> isAiSpeaking,
      mediaRecorder |-> mediaRecorder, stream |-> stream,
      audioContext |-> audioContext, sources |-> sources,
      silenceInterval |-> silenceInterval, vizLoop |-> vizLoop,
      connectAge |-> connectAge, sinceSpeech |-> sinceSpeech,
      mediaPending |-> mediaPending, conn |-> conn, nconn |-> nconn,
      retryTimers |-> retryTimers,
      finalizeTimers |-> finalizeTimers, decoding |-> decoding,
      tabSwitchCount |-> tabSwitchCount, notifyCount |-> notifyCount,
      timeUpSent |-> timeUpSent, lastSent |-> lastSent,
      clock |-> clock,
      nextStartTime |-> nextStartTime,
      scheduled |-> scheduled,
      currentInput |-> currentInput,
      currentAi |-> currentAi,
      transcript |-> transcript,
      emitted |-> emitted,
      textReceived |-> textReceived,
      noiseGate |-> noiseGate,
      framesCaptured |-> framesCaptured,
      framesHanded |-> framesHanded,
      lastFrame |-> lastFrame,
      videoChunks |-> videoChunks,
      recordedVideoBlob |-> recordedVideoBlob,
      stopPending |-> stopPending,
      emittedVideo |-> emittedVideo,
      acked |-> acked,
      upload |-> upload,
      requestCounts |-> requestCounts,
      now |-> now,
      granted |-> granted ]

\* nothing was started since the queue was last empty
NoBuffer == [start |-> 0, end |-> 0, flushed |-> TRUE]

NoSent == [kind |-> "none", strike |-> 0]

\* the callers of save-interview
Ips == {"a", "b"}

\* requestCounts = new Map()
NoRequests == [ip \in Ips |-> [count |-> 0, timestamp |-> 0]]

\* no request was let through yet
NoGrants == [ip \in Ips |-> [t \in 0..MaxNow |-> 0]]

\* uploadVideoToCloudinary has not been called
NoUpload ==
    [phase |-> "idle", attempt |-> 0, responses |-> << >>, waited |-> << >>,
     result |-> "none"]

\* no notifyResult call has been accepted yet
NoDecision == [passed |-> FALSE, reason |-> "none"]

InitSession ==
    /\ appState = "INTERVIEW"
    /\ results = << >>
    /\ isSessionActive = FALSE
    /\ connectionState = "idle"
    /\ timeLeft = TimeBudget
    /\ showContactOverlay = FALSE
    /\ errorMsg = NoMsg
    /\ isIntentionalClose = FALSE
    /\ session = 0
    /\ retryCount = 0
    /\ retryRefPending = FALSE
    /\ hasCalledNotify = FALSE
    /\ pendingDecision = NoDecision
    /\ ignoredCall = NoDecision
    /\ strikeCount = 0
    /\ isAiSpeaking = FALSE
    /\ mediaRecorder = "null"
    /\ stream = FALSE
    /\ audioContext = FALSE
    /\ sources = 0
    /\ silenceInterval = FALSE
    /\ vizLoop = FALSE
    /\ connectAge = FastCloseMs
    /\ sinceSpeech = 0
    /\ mediaPending = FALSE
    /\ conn = [c \in ConnIds |-> "none"]
    /\ nconn = 0
    /\ retryTimers = << >>
    /\ finalizeTimers = {}
    /\ decoding = {}
    /\ tabSwitchCount = 0
    /\ notifyCount = 0
    /\ timeUpSent = 0
    /\ lastSent = NoSent
    /\ clock = 0
    /\ nextStartTime = 0
    /\ scheduled = NoBuffer
    /\ currentInput = << >>
    /\ currentAi = << >>
    /\ transcript = << >>
    /\ emitted = << >>
    /\ textReceived = 0
    /\ framesCaptured = 0
    /\ framesHanded = 0
    /\ lastFrame = "none"
    /\ videoChunks = FALSE
    /\ recordedVideoBlob = FALSE
    /\ stopPending = FALSE
    /\ emittedVideo = "none"
    /\ acked = NoDecision
    /\ upload = NoUpload
    /\ requestCounts = NoRequests
    /\ now = 0
    /\ granted = NoGrants

\* the component as first mounted, built from the copy of the source whose
\* onaudioprocess sends every frame
Init ==
    /\ InitSession
    /\ noiseGate = FALSE

\* the component as first mounted, built from either copy of the source
InitCapture ==
    /\ InitSession
    /\ noiseGate \in BOOLEAN

(***************************************************************************)
(* cleanup(): sets the intentional-close flag, clears the timer stored in  *)
(* retryTimeoutRef and the silence interval, cancels the animation frame,  *)
(* stops the recorder and the media stream, closes the audio context,      *)
(* stops the playing sources and drops the session reference.              *)
(***************************************************************************)
cleanup(s) ==
    [s EXCEPT !.isIntentionalClose = TRUE,
              !.retryTimers = IF s.retryRefPending THEN SubSeq(@, 1, Len(@) - 1) ELSE @,
              !.retryRefPending = FALSE,
              !.silenceInterval = FALSE,
              !.vizLoop = FALSE,
              !.mediaRecorder = IF @ = "recording" THEN "inactive" ELSE @,
              !.stopPending = @ \/ s.mediaRecorder = "recording",
              !.stream = FALSE,
              !.audioContext = FALSE,
              !.sources = 0,
              !.session = 0]

(***************************************************************************)
(* The effects React runs after a state change of the mounted component.   *)
(***************************************************************************)
\* Timer effect, deps [connectionState, timeLeft, showContactOverlay]: with
\* the budget at zero it sends the time-limit message unless a decision came
TimerEffect(old, s) ==
    IF /\ << old.connectionState, old.timeLeft, old.showContactOverlay >>
            # << s.connectionState, s.timeLeft, s.showContactOverlay >>
       /\ ~(s.connectionState = "connected" /\ s.timeLeft > 0 /\ ~s.showContactOverlay)
       /\ s.timeLeft = 0
       /\ ~s.showContactOverlay
       /\ ~s.hasCalledNotify
       /\ s.session # 0
    THEN [s EXCEPT !.timeUpSent = Min(@ + 1, 2)]
    ELSE s

\* Silence Monitor effect, deps [connectionState]: the old interval is
\* cleared and a new one is started while connected
SilenceEffect(old, s) ==
    IF old.connectionState # s.connectionState
    THEN [s EXCEPT !.silenceInterval = (s.connectionState = "connected")]
    ELSE s

\* the state updates of an unmounted component taking effect
KeepStateUpdates(old, s) == s

\* the state updates of a component that is no longer mounted are dropped
DropStateUpdates(old, s) ==
    [s EXCEPT !.isSessionActive = old.isSessionActive,
              !.connectionState = old.connectionState,
              !.timeLeft = old.timeLeft,
              !.errorMsg = old.errorMsg]

\* what a callback leaves behind: its writes, then the effects they trigger;
\* when App leaves INTERVIEW the component unmounts and its effects clean up
Commit(old, new) ==
    IF old.appState # "INTERVIEW" THEN DropStateUpdates(old, new)
    ELSE IF new.appState # "INTERVIEW" THEN cleanup(new)
    ELSE SilenceEffect(old, TimerEffect(old, new))

\* the step of a callback: every variable takes its value from the state the
\* callback and the effects leave behind
Apply(new) ==
    \E n \in {Commit(St, new)} :
    /\ appState' = n.appState
    /\ results' = n.results
    /\ isSessionActive' = n.isSessionActive
    /\ connectionState' = n.connectionState
    /\ timeLeft' = n.timeLeft
    /\ showContactOverlay' = n.showContactOverlay
    /\ errorMsg' = n.errorMsg
    /\ isIntentionalClose' = n.isIntentionalClose
    /\ session' = n.session
    /\ retryCount' = n.retryCount
    /\ retryRefPending' = n.retryRefPending
    /\ hasCalledNotify' = n.hasCalledNotify
    /\ pendingDecision' = n.pendingDecision
    /\ ignoredCall' = n.ignoredCall
    /\ strikeCount' = n.strikeCount
    /\ isAiSpeaking' = n.isAiSpeaking
    /\ mediaRecorder' = n.mediaRecorder
    /\ stream' = n.stream
    /\ audioContext' = n.audioContext
    /\ sources' = n.sources
    /\ silenceInterval' = n.silenceInterval
    /\ vizLoop' = n.vizLoop
    /\ connectAge' = n.connectAge
    /\ sinceSpeech' = n.sinceSpeech
    /\ mediaPending' = n.mediaPending
    /\ conn' = n.conn
    /\ nconn' = n.nconn
    /\ retryTimers' = n.retryTimers
    /\ finalizeTimers' = n.finalizeTimers
    /\ decoding' = n.decoding
    /\ tabSwitchCount' = n.tabSwitchCount
    /\ notifyCount' = n.notifyCount
    /\ timeUpSent' = n.timeUpSent
    /\ lastSent' = n.lastSent
    /\ clock' = n.clock
    /\ nextStartTime' = n.nextStartTime
    /\ scheduled' = n.scheduled
    /\ currentInput' = n.currentInput
    /\ currentAi' = n.currentAi
    /\ transcript' = n.transcript
    /\ emitted' = n.emitted
    /\ textReceived' = n.textReceived
    /\ noiseGate' = n.noiseGate
    /\ framesCaptured' = n.framesCaptured
    /\ framesHanded' = n.framesHanded
    /\ lastFrame' = n.lastFrame
    /\ videoChunks' = n.videoChunks
    /\ recordedVideoBlob' = n.recordedVideoBlob
    /\ stopPending' = n.stopPending
    /\ emittedVideo' = n.emittedVideo
    /\ acked' = n.acked
    /\ upload' = n.upload
    /\ requestCounts' = n.requestCounts
    /\ now' = n.now
    /\ granted' = n.granted

(***************************************************************************)
(* Connection supervisor.                                                  *)
(***************************************************************************)
\* connectToGemini without the test of isIntentionalCloseRef
connectToGeminiUnguarded(s) ==
    [s EXCEPT !.connectionState =
                  IF @ = "initializing" THEN "connecting" ELSE "reconnecting",
              !.connectAge = 0,
              !.nconn = @ + 1,
              !.conn = [@ EXCEPT ![s.nconn + 1] = "connecting"]]

\* connectToGemini, up to the await of ai.live.connect
connectToGemini(s) ==
    IF s.isIntentionalClose THEN s
    ELSE [s EXCEPT !.connectionState =
                       IF @ = "initializing" THEN "connecting" ELSE "reconnecting",
                   !.connectAge = 0,
                   !.nconn = @ + 1,
                   !.conn = [@ EXCEPT ![s.nconn + 1] = "connecting"]]

\* Math.min(1000 * Math.pow(2, retryCount), 5000)
RetryDelay(n) == Min(BackoffBaseMs * (2 ^ n), BackoffCapMs)

\* handleDisconnect with retryCount <= 3 as its test
handleDisconnectLe(s) ==
    IF s.isIntentionalClose THEN s
    ELSE IF s.retryCount <= RetryLimit
    THEN [s EXCEPT !.session = 0,
                   !.connectionState = "reconnecting",
                   !.retryCount = @ + 1,
                   !.retryTimers = Append(@, RetryDelay(s.retryCount)),
                   !.retryRefPending = TRUE]
    ELSE [s EXCEPT !.session = 0,
                   !.connectionState = "error",
                   !.errorMsg = MsgLost]

handleDisconnect(s) ==
    IF s.isIntentionalClose THEN s
    ELSE IF s.retryCount < RetryLimit
    THEN [s EXCEPT !.session = 0,
                   !.connectionState = "reconnecting",
                   !.retryCount = @ + 1,
                   !.retryTimers = Append(@, RetryDelay(s.retryCount)),
                   !.retryRefPending = TRUE]
    ELSE [s EXCEPT !.session = 0,
                   !.connectionState = "error",
                   !.errorMsg = MsgLost]

\* callbacks.onopen leaving retryCountRef as it is
onopenKeepsCount(s, c) ==
    [s EXCEPT !.connectionState = "connected",
              !.errorMsg = NoMsg,
              !.session = c]

\* callbacks.onopen, then the continuation of the await: sessionRef = session
onopen(s, c) ==
    [s EXCEPT !.connectionState = "connected",
              !.retryCount = 0,
              !.errorMsg = NoMsg,
              !.session = c]

\* callbacks.onclose
onclose(s) ==
    IF s.connectAge < FastCloseMs
    THEN [s EXCEPT !.connectionState = "error", !.errorMsg = MsgRejected]
    ELSE handleDisconnect(s)

\* callbacks.onerror
onerror(s) == handleDisconnect(s)

(***************************************************************************)
(* Transcript.  A text is a sequence of characters, " " the white space.   *)
(***************************************************************************)
RECURSIVE TrimStart(_)
TrimStart(q) == IF q # << >> /\ Head(q) = " " THEN TrimStart(Tail(q)) ELSE q

RECURSIVE TrimEnd(_)
TrimEnd(q) ==
    IF q # << >> /\ q[Len(q)] = " " THEN TrimEnd(SubSeq(q, 1, Len(q) - 1)) ELSE q

\* String.prototype.trim
trim(q) == TrimEnd(TrimStart(q))

\* the suffix of a partial agent text: " [Interrupted]"
InterruptedMark == << " ", "[Interrupted]" >>

\* if (currentInputRef.current.trim()) { transcriptRef.current.push(...) }
commitInput(s) ==
    IF trim(s.currentInput) # << >>
    THEN [s EXCEPT !.transcript =
                       Append(@, [speaker |-> "user", text |-> trim(s.currentInput)]),
                   !.currentInput = << >>]
    ELSE s

\* the push of the agent's buffer without currentAiRef.current = ""
commitAiKeepsBuffer(s, suffix) ==
    IF trim(s.currentAi) # << >>
    THEN [s EXCEPT !.transcript =
                       Append(@, [speaker |-> "ai",
                                  text |-> trim(s.currentAi) \o suffix])]
    ELSE s

\* if (currentAiRef.current.trim()) { transcriptRef.current.push(...) }
commitAi(s, suffix) ==
    IF trim(s.currentAi) # << >>
    THEN [s EXCEPT !.transcript =
                       Append(@, [speaker |-> "ai",
                                  text |-> trim(s.currentAi) \o suffix]),
                   !.currentAi = << >>]
    ELSE s

\* flushTranscriptBuffers pushing whatever the buffers hold
flushUnchecked(s) ==
    [s EXCEPT !.transcript =
                  @ \o << [speaker |-> "user", text |-> trim(s.currentInput)],
                          [speaker |-> "ai", text |-> trim(s.currentAi)] >>,
              !.currentInput = << >>,
              !.currentAi = << >>]

flushTranscriptBuffers(s) == commitAi(commitInput(s), << >>)

(***************************************************************************)
(* Decision arbiter.                                                       *)
(***************************************************************************)
\* finalizeEndSession: cleanup, the overlay, onComplete; App's handleComplete
\* stores the result and leaves INTERVIEW
finalizeEndSession(s, passed, reason) ==
    [cleanup(s) EXCEPT !.showContactOverlay = TRUE,
                       !.results = Append(@, [passed |-> passed, notes |-> reason]),
                       !.emitted = s.transcript,
                       !.emittedVideo =
                           IF s.recordedVideoBlob THEN "blob" ELSE "absent",
                       !.appState = "RESULT"]

\* handleEndSession as seen by a closure whose showContactOverlay is overlay
handleEndSession(s, overlay, passed, reason) ==
    IF overlay THEN s
    ELSE IF s.mediaRecorder = "recording"
    THEN [flushTranscriptBuffers(s) EXCEPT
              !.mediaRecorder = "inactive",
              !.stopPending = TRUE,
              !.finalizeTimers = @ \cup {[passed |-> passed, reason |-> reason]}]
    ELSE finalizeEndSession(flushTranscriptBuffers(s), passed, reason)

\* the loop over the function calls without the hasCalledNotifyRef test
RECURSIVE toolCallsUnguarded(_, _)
toolCallsUnguarded(s, calls) ==
    IF calls = << >> THEN s
    ELSE toolCallsUnguarded(
             handleEndSession([s EXCEPT !.hasCalledNotify = TRUE,
                                        !.pendingDecision = Head(calls)],
                              FALSE, Head(calls).passed, Head(calls).reason),
             Tail(calls))

\* handleServerMessage, 3. Tool Calls: the loop over msg.toolCall.functionCalls.
\* The closure is the one of the render that started the interview, whose
\* showContactOverlay is false.
RECURSIVE toolCalls(_, _)
toolCalls(s, calls) ==
    IF calls = << >> THEN s
    ELSE IF s.hasCalledNotify THEN [s EXCEPT !.ignoredCall = Head(calls)]
    ELSE toolCalls(
             handleEndSession([s EXCEPT !.hasCalledNotify = TRUE,
                                        !.pendingDecision = Head(calls),
                                        !.acked = IF s.session = 0 THEN @
                                                  ELSE Head(calls)],
                              FALSE, Head(calls).passed, Head(calls).reason),
             Tail(calls))

\* handleServerMessage, 0. Handle Interruption: the active sources are stopped
\* and dropped (the ended events of stopped sources are not modelled), the
\* queue restarts at the clock; the calls suspended in a decode are not
\* touched
interruptKeepsQueue(s) ==
    [s EXCEPT !.sources = 0,
              !.isAiSpeaking = FALSE,
              !.scheduled = [@ EXCEPT !.flushed = TRUE]]

\* the interruption branch without the stop and clear of the sources
interruptKeepsSources(s) ==
    [s EXCEPT !.nextStartTime = 0,
              !.isAiSpeaking = FALSE,
              !.scheduled = [@ EXCEPT !.flushed = TRUE]]

interrupt(s) ==
    [s EXCEPT !.sources = 0,
              !.nextStartTime = 0,
              !.isAiSpeaking = FALSE,
              !.scheduled = [@ EXCEPT !.flushed = TRUE]]

\* handleServerMessage, 2. Audio Output, Schedule: the decoded buffer starts
\* at nextStartTimeRef, or at the clock when that is past
schedule(s, dur) ==
    LET start == IF s.nextStartTime < s.clock THEN s.clock ELSE s.nextStartTime
    IN [s EXCEPT !.nextStartTime = start + dur,
                 !.sources = @ + 1,
                 !.scheduled = [start |-> start, end |-> start + dur,
                                flushed |-> FALSE]]

\* handleServerMessage up to its await (or to its end when it does not await)
handleServerMessage(s, m) ==
    LET s1 == [s EXCEPT !.currentInput = @ \o m.inputText,
                        !.currentAi = @ \o m.outputText]
        s2 == IF m.turnComplete THEN commitAi(commitInput(s1), << >>) ELSE s1
    IN IF s.isIntentionalClose THEN s
       ELSE IF m.interrupted
       THEN commitAi(interrupt(s1), InterruptedMark)
       ELSE IF m.audio # "none" /\ s2.audioContext
       THEN [s2 EXCEPT !.isAiSpeaking = TRUE,
                       !.decoding = @ \cup {[audio |-> m.audio, dur |-> m.dur,
                                             calls |-> m.calls]}]
       ELSE toolCalls(s2, m.calls)

\* handleServerMessage after await decodeAudioData: the buffer is scheduled,
\* unless the decode or createBufferSource threw, then the tool calls
afterDecode(s, d) ==
    LET s1 == [s EXCEPT !.decoding = @ \ {d}]
        s2 == IF d.audio = "ok" /\ s1.audioContext
              THEN schedule(s1, d.dur)
              ELSE s1
    IN toolCalls(s2, d.calls)

\* source.onended
onended(s) ==
    [s EXCEPT !.sources = @ - 1,
              !.isAiSpeaking = IF s.sources = 1 THEN FALSE ELSE @]

(***************************************************************************)
(* Liveness monitor.                                                       *)
(***************************************************************************)
\* the callback of the silence interval with strikeCount > 3 as its test
silenceCheckGt(s) ==
    IF s.isIntentionalClose THEN s
    ELSE IF s.sinceSpeech * SecondMs > SilenceThresholdMs /\ ~s.isAiSpeaking
    THEN [s EXCEPT !.strikeCount = @ + 1,
                   !.sinceSpeech = 0,
                   !.lastSent =
                       IF s.session = 0 THEN @
                       ELSE IF s.strikeCount + 1 > StrikeLimit
                       THEN [kind |-> "fail", strike |-> s.strikeCount + 1]
                       ELSE [kind |-> "checkin", strike |-> s.strikeCount + 1]]
    ELSE s

\* the callback of the silence interval without the test of isAiSpeakingRef
silenceCheckDeaf(s) ==
    IF s.isIntentionalClose THEN s
    ELSE IF s.sinceSpeech * SecondMs > SilenceThresholdMs
    THEN [s EXCEPT !.strikeCount = @ + 1,
                   !.sinceSpeech = 0,
                   !.lastSent =
                       IF s.session = 0 THEN @
                       ELSE IF s.strikeCount + 1 >= StrikeLimit
                       THEN [kind |-> "fail", strike |-> s.strikeCount + 1]
                       ELSE [kind |-> "checkin", strike |-> s.strikeCount + 1]]
    ELSE s

\* the callback of the silence interval without the reset of
\* lastUserSpeechTimeRef
silenceCheckNoReset(s) ==
    IF s.isIntentionalClose THEN s
    ELSE IF s.sinceSpeech * SecondMs > SilenceThresholdMs /\ ~s.isAiSpeaking
    THEN [s EXCEPT !.strikeCount = @ + 1,
                   !.lastSent =
                       IF s.session = 0 THEN @
                       ELSE IF s.strikeCount + 1 >= StrikeLimit
                       THEN [kind |-> "fail", strike |-> s.strikeCount + 1]
                       ELSE [kind |-> "checkin", strike |-> s.strikeCount + 1]]
    ELSE s

\* the callback of the silence interval
silenceCheck(s) ==
    IF s.isIntentionalClose THEN s
    ELSE IF s.sinceSpeech * SecondMs > SilenceThresholdMs /\ ~s.isAiSpeaking
    THEN [s EXCEPT !.strikeCount = @ + 1,
                   !.sinceSpeech = 0,
                   !.lastSent =
                       IF s.session = 0 THEN @
                       ELSE IF s.strikeCount + 1 >= StrikeLimit
                       THEN [kind |-> "fail", strike |-> s.strikeCount + 1]
                       ELSE [kind |-> "checkin", strike |-> s.strikeCount + 1]]
    ELSE s

\* updateVisualizers: one animation frame; loud is avg > 20
updateVisualizers(s, loud) ==
    IF s.isIntentionalClose THEN [s EXCEPT !.vizLoop = FALSE]
    ELSE IF loud THEN [s EXCEPT !.sinceSpeech = 0, !.strikeCount = 0]
    ELSE s

(***************************************************************************)
(* Capture pipeline and recorder.                                          *)
(***************************************************************************)
\* onaudioprocess with a failed send taken for a drop of the transport
onaudioprocessFailsLoud(s, quiet, throws) ==
    IF s.isIntentionalClose \/ s.session = 0
    THEN [s EXCEPT !.lastFrame = "skipped"]
    ELSE IF s.noiseGate /\ quiet
    THEN [s EXCEPT !.lastFrame = "gated"]
    ELSE IF throws
    THEN handleDisconnect([s EXCEPT !.framesHanded = @ + 1,
                                    !.lastFrame = "threw"])
    ELSE [s EXCEPT !.framesHanded = @ + 1, !.lastFrame = "sent"]

\* processor.onaudioprocess for one frame: quiet is rms < 0.002, throws is
\* sendRealtimeInput throwing
onaudioprocess(s, quiet, throws) ==
    IF s.isIntentionalClose \/ s.session = 0
    THEN [s EXCEPT !.lastFrame = "skipped"]
    ELSE IF s.noiseGate /\ quiet
    THEN [s EXCEPT !.lastFrame = "gated"]
    ELSE [s EXCEPT !.framesHanded = @ + 1,
                   !.lastFrame = IF throws THEN "threw" ELSE "sent"]

\* mediaRecorder.onstop after the last dataavailable event, which carries
\* data or not
onstop(s, finalData) ==
    LET chunks == s.videoChunks \/ finalData
    IN [s EXCEPT !.stopPending = FALSE,
                 !.videoChunks = chunks,
                 !.recordedVideoBlob = @ \/ chunks]

(***************************************************************************)
(* Upload of the recording.                                                *)
(***************************************************************************)
\* what a fetch of the upload settles with: status 0 is a rejected fetch (a
\* network error); body tells what the JSON body of an error response gives
\* as error.message: nothing, a text, a text in which "400" or "413" occurs
UploadOutcomes ==
    [status : {0, 200, 400, 401, 404, 413, 500, 503},
     body : {"none", "text", "text400"}]

\* response.ok
Ok(r) == r.status >= 200 /\ r.status <= 299

\* error.message.includes('400') || error.message.includes('413'), for the
\* message thrown at line 73: the message of the body, or else "Upload failed
\* with status N"; a rejected fetch has the message of the browser
MessageHas400(r) ==
    IF r.status = 0 THEN FALSE
    ELSE IF r.body = "none" THEN r.status \in {400, 413}
    ELSE r.body = "text400"

\* one pass of the loop of uploadVideoToCloudinary from the settling of its
\* fetch: the return of a success, or the catch block
uploadSettles(u, r) ==
    LET v == [u EXCEPT !.responses = Append(@, r)]
    IN IF Ok(r) THEN [v EXCEPT !.phase = "returned", !.result = "success"]
       ELSE IF MessageHas400(r)
       THEN [v EXCEPT !.phase = "returned", !.result = "failure"]
       ELSE IF u.attempt < maxRetries
       THEN [v EXCEPT !.phase = "wait",
                      !.waited = Append(@, (2 ^ u.attempt) * SecondMs)]
       ELSE [v EXCEPT !.phase = "returned", !.result = "failure"]

(***************************************************************************)
(* Rate limit of save-interview.                                           *)
(***************************************************************************)
\* checkRateLimit, Clean up old entries: every entry whose timestamp is
\* before the start of the window is deleted
cleanOld(rc, time) ==
    [k \in Ips |->
        IF rc[k].count > 0 /\ rc[k].timestamp * TickMs < time * TickMs - WindowMs
        THEN [count |-> 0, timestamp |-> 0]
        ELSE rc[k]]

\* checkRateLimit(ip) at Date.now() = time: the map after the call and the
\* value returned
checkRateLimit(rc, ip, time) ==
    LET rc1 == cleanOld(rc, time)
    IN IF rc1[ip].count = 0
       THEN [map |-> [rc1 EXCEPT ![ip] = [count |-> 1, timestamp |-> time]],
             ok |-> TRUE]
       ELSE IF rc1[ip].count >= RateLimit
       THEN [map |-> rc1, ok |-> FALSE]
       ELSE [map |-> [rc1 EXCEPT ![ip].count = @ + 1], ok |-> TRUE]

\* handler, Rate limiting: the request of ip is let through or answered 429
saveRequest(s, ip) ==
    LET r == checkRateLimit(s.requestCounts, ip, s.now)
    IN [s EXCEPT !.requestCounts = r.map,
                 !.granted = IF r.ok THEN [@ EXCEPT ![ip][s.now] = @ + 1]
                             ELSE @]

(***************************************************************************)
(* The actions: one per callback.                                          *)
(***************************************************************************)
Mounted == appState = "INTERVIEW"

\* the Start Interview button: startInterview, initializeMedia up to
\* await getUserMedia
StartInterview ==
    /\ Mounted
    /\ ~isSessionActive
    /\ Apply([St EXCEPT !.isSessionActive = TRUE,
                        !.isIntentionalClose = FALSE,
                        !.connectionState = "initializing",
                        !.errorMsg = NoMsg,
                        !.mediaPending = TRUE])

\* getUserMedia resolves, with a failure of the recorder taken for a failure
\* of initializeMedia
MediaGrantedRecorderFatal ==
    /\ mediaPending
    /\ \E recorderOk \in BOOLEAN :
         Apply(IF isIntentionalClose
               THEN [St EXCEPT !.mediaPending = FALSE]
               ELSE IF ~recorderOk
               THEN [St EXCEPT !.mediaPending = FALSE,
                               !.stream = TRUE,
                               !.audioContext = TRUE,
                               !.connectionState = "error",
                               !.errorMsg = MsgMedia]
               ELSE connectToGemini(
                        [St EXCEPT !.mediaPending = FALSE,
                                   !.stream = TRUE,
                                   !.audioContext = TRUE,
                                   !.mediaRecorder = "recording",
                                   !.videoChunks = FALSE,
                                   !.vizLoop = TRUE]))

\* getUserMedia resolves: the rest of initializeMedia; the recorder may fail
\* to initialize
MediaGranted ==
    /\ mediaPending
    /\ \E recorderOk \in BOOLEAN :
         Apply(IF isIntentionalClose
               THEN [St EXCEPT !.mediaPending = FALSE]
               ELSE connectToGemini(
                        [St EXCEPT !.mediaPending = FALSE,
                                   !.stream = TRUE,
                                   !.audioContext = TRUE,
                                   !.mediaRecorder =
                                       IF recorderOk THEN "recording" ELSE "null",
                                   !.videoChunks = FALSE,
                                   !.vizLoop = TRUE]))

\* a catch of initializeMedia that reports the error and connects anyway
MediaDeniedConnects ==
    /\ mediaPending
    /\ Apply(connectToGemini([St EXCEPT !.mediaPending = FALSE,
                                        !.connectionState = "error",
                                        !.errorMsg = MsgMedia]))

\* getUserMedia rejects: the catch of initializeMedia
MediaDenied ==
    /\ mediaPending
    /\ Apply([St EXCEPT !.mediaPending = FALSE,
                        !.connectionState = "error",
                        !.errorMsg = MsgMedia])

\* one second passes after a connect attempt started
ConnectAges ==
    /\ nconn > 0
    /\ connectAge < FastCloseMs
    /\ Apply([St EXCEPT !.connectAge = FastCloseMs])

ConnOpened ==
    \E c \in ConnIds :
        /\ conn[c] = "connecting"
        /\ Apply(onopen([St EXCEPT !.conn = [@ EXCEPT ![c] = "open"]], c))

\* ai.live.connect rejects: the catch of connectToGemini
ConnRejected ==
    \E c \in ConnIds :
        /\ conn[c] = "connecting"
        /\ Apply(handleDisconnect([St EXCEPT !.conn = [@ EXCEPT ![c] = "closed"]]))

ConnError ==
    \E c \in ConnIds :
        /\ conn[c] \in {"connecting", "open"}
        /\ Apply(onerror([St EXCEPT !.conn = [@ EXCEPT ![c] = "errored"]]))

ConnClosed ==
    \E c \in ConnIds :
        /\ conn[c] \in {"connecting", "open", "errored"}
        /\ Apply(onclose([St EXCEPT !.conn = [@ EXCEPT ![c] = "closed"]]))

\* a sequence without its i-th element
Without(q, i) == SubSeq(q, 1, i - 1) \o SubSeq(q, i + 1, Len(q))

\* a reconnect timer fires: the timer is spent, then connectToGemini
retryFired(s, i) ==
    connectToGemini(
        [s EXCEPT !.retryTimers = Without(@, i),
                  !.retryRefPending = IF i = Len(s.retryTimers) THEN FALSE ELSE @])

RetryFire ==
    \E i \in DOMAIN retryTimers :
        /\ isIntentionalClose \/ nconn < MaxConn
        /\ Apply(retryFired(St, i))

\* the messages the transport may deliver
CallSeqs == {<< >>} \cup {<<d>> : d \in Decisions}
               \cup {<<d, e>> : d \in Decisions, e \in Decisions}

\* a chunk of transcription: absent, white space, a visible character
TextChunks == {<< >>, << " " >>, << "w" >>}

\* a message: the transcription chunks it carries, whether it completes a
\* turn, whether it reports an interruption, its audio part (none, one that
\* decodes to a buffer of dur units, one that fails to decode), its calls
Messages ==
    {m \in [inputText : TextChunks, outputText : TextChunks,
            turnComplete : BOOLEAN, interrupted : BOOLEAN,
            audio : {"none", "ok", "bad"}, dur : 0..MaxDur, calls : CallSeqs] :
        (m.audio = "ok") <=> (m.dur > 0)}

\* the message carries no transcription and completes no turn
NoTranscript(m) ==
    m.inputText = << >> /\ m.outputText = << >> /\ ~m.turnComplete

\* messages whose audio, if any, is one unit long: those that carry a
\* decision call, those that carry none
DecisionMessages ==
    {m \in Messages : NoTranscript(m) /\ m.dur <= 1 /\ m.calls # << >>}
PlainMessages ==
    {m \in Messages : NoTranscript(m) /\ m.dur <= 1 /\ m.calls = << >>}
\* messages that carry audio of any length, or an interruption, and no call
AudioMessages == {m \in Messages : NoTranscript(m) /\ m.calls = << >>}
\* messages that carry transcription, turn ends and interruptions only
TranscriptMessages == {m \in Messages : m.audio = "none" /\ m.calls = << >>}

\* the latest end the buffers decoded so far can be given
Horizon ==
    LET pending == {d \in decoding : d.audio = "ok"}
        from == IF nextStartTime < clock THEN clock ELSE nextStartTime
    IN from + Cardinality(pending) * MaxDur

ServerMessage(M) ==
    \E c \in ConnIds, m \in M :
        /\ conn[c] = "open"
        /\ notifyCount + Len(m.calls) <= MaxNotify
        /\ m.audio # "none" => Cardinality(decoding) < MaxDecoding
        /\ m.audio = "ok" => sources + Cardinality(decoding) < MaxSources
        /\ m.audio = "ok" => Horizon + m.dur <= MaxTime
        /\ textReceived + Len(m.inputText) + Len(m.outputText) <= MaxText
        /\ Apply(handleServerMessage(
                     [St EXCEPT !.notifyCount = @ + Len(m.calls),
                                !.textReceived =
                                    @ + Len(m.inputText) + Len(m.outputText)],
                     m))

DecodeDone ==
    \E d \in decoding : Apply(afterDecode(St, d))

\* the audio clock advances by one unit
ClockAdvances ==
    /\ audioContext
    /\ clock < MaxTime
    /\ Apply([St EXCEPT !.clock = @ + 1])

SourceEnded ==
    /\ sources > 0
    /\ Apply(onended(St))

\* an interval that keeps counting whatever connectionState is
TimerTickAnyState ==
    /\ Mounted
    /\ timeLeft > 0
    /\ ~showContactOverlay
    /\ Apply([St EXCEPT !.timeLeft = @ - 1])

\* the interval of the Timer effect
TimerTick ==
    /\ Mounted
    /\ connectionState = "connected"
    /\ timeLeft > 0
    /\ ~showContactOverlay
    /\ Apply([St EXCEPT !.timeLeft = @ - 1])

\* a second passes without speech being observed
SilenceAges ==
    /\ sinceSpeech * SecondMs <= SilenceThresholdMs
    /\ Apply([St EXCEPT !.sinceSpeech = @ + 1])

\* the callback of the silence interval, followed up to cap strikes
SilenceCheck(cap) ==
    /\ silenceInterval
    /\ strikeCount < cap
    /\ Apply(silenceCheck(St))

VisualizerFrame ==
    /\ vizLoop
    /\ \E loud \in BOOLEAN : Apply(updateVisualizers(St, loud))

\* the End Interview button, in the closure of the current render
ClickEnd ==
    /\ Mounted
    /\ isSessionActive
    /\ Apply(handleEndSession(St, showContactOverlay, FALSE, UserTerminated))

\* handleVisibilityChange with document.hidden; its closure is the one of the
\* render that set isSessionActive, whose showContactOverlay is false
TabHidden ==
    /\ Mounted
    /\ isSessionActive
    /\ tabSwitchCount < MaxHidden
    /\ Apply(IF tabSwitchCount + 1 >= TabSwitchLimit
             THEN handleEndSession(
                      [St EXCEPT !.tabSwitchCount = @ + 1,
                                 !.isIntentionalClose = TRUE],
                      FALSE, FALSE, SecurityReason)
             ELSE [St EXCEPT !.tabSwitchCount = @ + 1])

\* a finalization that waits for the stop event of the recorder instead of
\* the timer
FinalizeFireAfterStop ==
    \E t \in finalizeTimers :
        /\ ~stopPending
        /\ Apply(finalizeEndSession([St EXCEPT !.finalizeTimers = @ \ {t}],
                                    t.passed, t.reason))

\* the 500 ms timer of handleEndSession fires
FinalizeFire ==
    \E t \in finalizeTimers :
        Apply(finalizeEndSession([St EXCEPT !.finalizeTimers = @ \ {t}],
                                 t.passed, t.reason))

\* the script processor delivers one frame of 512 samples
AudioFrame ==
    /\ audioContext
    /\ framesCaptured < MaxFrames
    /\ \E quiet \in BOOLEAN, throws \in BOOLEAN :
         Apply(onaudioprocess([St EXCEPT !.framesCaptured = @ + 1],
                              quiet, throws))

\* mediaRecorder.ondataavailable with event.data.size > 0
RecorderData ==
    /\ mediaRecorder = "recording"
    /\ ~videoChunks
    /\ Apply([St EXCEPT !.videoChunks = TRUE])

\* the stop event of the recorder
RecorderStopped ==
    /\ stopPending
    /\ \E finalData \in BOOLEAN : Apply(onstop(St, finalData))

\* uploadVideoToCloudinary is called: the first pass of the loop up to its
\* fetch
UploadStart ==
    /\ upload.phase = "idle"
    /\ Apply([St EXCEPT !.upload = [@ EXCEPT !.phase = "fetch", !.attempt = 1]])

\* the fetch of the current attempt settles
UploadSettles ==
    /\ upload.phase = "fetch"
    /\ \E r \in UploadOutcomes :
         Apply([St EXCEPT !.upload = uploadSettles(@, r)])

\* the delay before the next attempt has elapsed
UploadWaitElapsed ==
    /\ upload.phase = "wait"
    /\ Apply([St EXCEPT !.upload = [@ EXCEPT !.phase = "fetch",
                                             !.attempt = @ + 1]])

\* a POST request of ip reaches the handler of save-interview
SaveRequest ==
    \E ip \in Ips :
        /\ now <= MaxNow
        /\ Apply(saveRequest(St, ip))

\* the clock of the save-interview function advances by one tick
ServerClockTick ==
    /\ now < MaxNow
    /\ Apply([St EXCEPT !.now = @ + 1])

Next ==
    \/ SaveRequest
    \/ ServerClockTick
    \/ UploadStart
    \/ UploadSettles
    \/ UploadWaitElapsed
    \/ AudioFrame
    \/ RecorderData
    \/ RecorderStopped
    \/ StartInterview
    \/ MediaGranted
    \/ MediaDenied
    \/ ConnectAges
    \/ ConnOpened
    \/ ConnRejected
    \/ ConnError
    \/ ConnClosed
    \/ RetryFire
    \/ ServerMessage(Messages)
    \/ DecodeDone
    \/ SourceEnded
    \/ ClockAdvances
    \/ TimerTick
    \/ SilenceAges
    \/ SilenceCheck(MaxStrikes)
    \/ VisualizerFrame
    \/ ClickEnd
    \/ TabHidden
    \/ FinalizeFire

Spec == Init /\ [][Next]_vars

(***************************************************************************)
(* The specifications that are checked.  Spec composes every callback; its *)
(* state space is the product of the components' and is not enumerated.    *)
(* Each component is checked with the callbacks that read or write its     *)
(* state and the part of the environment that drives them.                 *)
(***************************************************************************)
\* the decision arbiter with the first transport connection: decisions,
\* manual stops, security stops, the time budget, the recorder wait
NextArbiter ==
    \/ StartInterview
    \/ MediaGranted
    \/ MediaDenied
    \/ ConnectAges
    \/ ConnOpened
    \/ ConnError
    \/ ConnClosed
    \/ ServerMessage(DecisionMessages)
    \/ DecodeDone
    \/ TimerTick
    \/ ClickEnd
    \/ TabHidden
    \/ FinalizeFire

SpecArbiter == Init /\ [][NextArbiter]_vars

\* a session without any fault: the media are granted, the transport opens
\* and stays open, the recorder works or not
NextSession ==
    \/ StartInterview
    \/ MediaGranted
    \/ ConnectAges
    \/ ConnOpened
    \/ ServerMessage(DecisionMessages)
    \/ DecodeDone
    \/ TimerTick
    \/ ClickEnd
    \/ TabHidden
    \/ FinalizeFire

\* the event loop runs every timer that is due and every continuation that is
\* ready; what the agent and the candidate do is left open
FairSession ==
    /\ Init
    /\ [][NextSession]_vars
    /\ WF_vars(MediaGranted)
    /\ WF_vars(ConnectAges)
    /\ WF_vars(ConnOpened)
    /\ WF_vars(DecodeDone)
    /\ WF_vars(TimerTick)
    /\ WF_vars(FinalizeFire)

\* the connection supervisor: the media, the connect attempts, their opens,
\* drops and reconnect timers, and the end of the session
NextConnection ==
    \/ StartInterview
    \/ MediaGranted
    \/ MediaDenied
    \/ ConnectAges
    \/ ConnOpened
    \/ ConnRejected
    \/ ConnError
    \/ ConnClosed
    \/ RetryFire
    \/ ClickEnd
    \/ FinalizeFire

SpecConnection == Init /\ [][NextConnection]_vars

\* the liveness monitor on an open transport: agent audio, its playback, the
\* candidate's speech energy, the silence interval, and the end of the session
NextLiveness ==
    \/ StartInterview
    \/ MediaGranted
    \/ ConnectAges
    \/ ConnOpened
    \/ ConnClosed
    \/ ServerMessage(PlainMessages)
    \/ DecodeDone
    \/ SourceEnded
    \/ SilenceAges
    \/ SilenceCheck(MaxStrikes)
    \/ VisualizerFrame
    \/ ClickEnd
    \/ FinalizeFire

SpecLiveness == Init /\ [][NextLiveness]_vars

\* the silence monitor on an open transport that stays open, followed past
\* the strike limit
NextStrikes ==
    \/ StartInterview
    \/ MediaGranted
    \/ ConnOpened
    \/ SilenceAges
    \/ SilenceCheck(StrikeLimit + MaxFails - 1)
    \/ VisualizerFrame
    \/ ClickEnd
    \/ FinalizeFire

SpecStrikes == Init /\ [][NextStrikes]_vars

\* the playback scheduler on an open transport: agent audio, its decoding,
\* interruptions, the audio clock, and the end of the session
NextPlayback ==
    \/ StartInterview
    \/ MediaGranted
    \/ ConnOpened
    \/ ServerMessage(AudioMessages)
    \/ DecodeDone
    \/ SourceEnded
    \/ ClockAdvances
    \/ ClickEnd
    \/ FinalizeFire

SpecPlayback == Init /\ [][NextPlayback]_vars

\* the transcript on an open transport: transcription chunks, turn ends,
\* interruptions, and the end of the session with its final flush
NextTranscript ==
    \/ StartInterview
    \/ MediaGranted
    \/ ConnOpened
    \/ ServerMessage(TranscriptMessages)
    \/ ClickEnd
    \/ FinalizeFire

SpecTranscript == Init /\ [][NextTranscript]_vars

\* the capture pipeline: frames of the microphone while the transport is
\* being connected, is open, drops, and after the end of the session
NextCapture ==
    \/ StartInterview
    \/ MediaGranted
    \/ ConnectAges
    \/ ConnOpened
    \/ ConnError
    \/ RetryFire
    \/ AudioFrame
    \/ ClickEnd
    \/ FinalizeFire

SpecCapture == InitCapture /\ [][NextCapture]_vars

\* the recorder: its start, its chunks, its stop event, and the end of the
\* session by the End button or the third tab switch
NextRecorder ==
    \/ StartInterview
    \/ MediaGranted
    \/ MediaDenied
    \/ ConnectAges
    \/ ConnOpened
    \/ ConnError
    \/ RecorderData
    \/ RecorderStopped
    \/ ClickEnd
    \/ TabHidden
    \/ FinalizeFire

SpecRecorder == Init /\ [][NextRecorder]_vars

\* the event loop runs the 500 ms timer when it is due; whether and when the
\* recorder reports its stop is left open
FairRecorder ==
    /\ Init
    /\ [][NextRecorder]_vars
    /\ WF_vars(FinalizeFire)

\* the upload of a recording, over every sequence of outcomes of its fetches
NextUpload ==
    \/ UploadStart
    \/ UploadSettles
    \/ UploadWaitElapsed

SpecUpload == Init /\ [][NextUpload]_vars

\* the rate limit of save-interview in one warm instance: requests of two
\* callers as time goes by
NextRateLimit ==
    \/ SaveRequest
    \/ ServerClockTick

SpecRateLimit == Init /\ [][NextRateLimit]_vars

\* the time limit over drops and reconnects: the timer, the error events of
\* the transport, the reconnect timers, the decision calls and the End button
NextTimeLimit ==
    \/ StartInterview
    \/ MediaGranted
    \/ ConnectAges
    \/ ConnOpened
    \/ ConnError
    \/ RetryFire
    \/ TimerTick
    \/ ServerMessage(DecisionMessages)
    \/ DecodeDone
    \/ ClickEnd
    \/ FinalizeFire

SpecTimeLimit == Init /\ [][NextTimeLimit]_vars

(***************************************************************************)
(* Claims.                                                                 *)
(***************************************************************************)
\* the result App receives for a decision
ResultOf(d) == [passed |-> d.passed, notes |-> d.reason]

AgentReasons == {d.reason : d \in Decisions}

LastResult(q) == q[Len(q)]

\* C1: in every session, over any interleaving of decision calls, End
\* Interview clicks, security terminations and timers, onComplete is invoked
\* at most once.
C1_AtMostOneResult == Len(results) <= 1

\* C2: every session that is started eventually emits a final result, under
\* fair scheduling of timers and callbacks, also when the agent never issues
\* a decision.
C2_StartedSessionEmits == isSessionActive ~> (results # << >>)

\* C3: at most one PendingDecision is ever set: the first notifyResult call
\* records the decision and is never overwritten, a later call is ignored,
\* and every agent decision that is scheduled for finalization or emitted is
\* the first call's {passed, reason}.
C3_SingleDecision ==
    /\ [][pendingDecision # NoDecision => pendingDecision' = pendingDecision]_vars
    /\ [](\A t \in finalizeTimers : t.reason \in AgentReasons => t = pendingDecision)
    /\ [](\A i \in DOMAIN results :
             results[i].notes \in AgentReasons => results[i] = ResultOf(pendingDecision))

\* a second, different notifyResult call was ignored and the first call's
\* decision was emitted
C3_Witness ==
    /\ ignoredCall # NoDecision
    /\ ignoredCall # pendingDecision
    /\ results = << ResultOf(pendingDecision) >>

\* C4: an End Interview click issued after the agent's decision call was
\* received finalizes with the agent's {passed, reason}, never with a generic
\* termination reason.
C4_ClickAfterDecisionKeepsDecision ==
    [][(ClickEnd /\ pendingDecision # NoDecision /\ results' # results)
          => LastResult(results') = ResultOf(pendingDecision)]_vars

\* C5: an End Interview click issued before any agent decision finalizes with
\* passed = false and reason = "Terminated by candidate".
C5_ClickBeforeDecisionReason ==
    [][(ClickEnd /\ pendingDecision = NoDecision /\ results' # results)
          => LastResult(results') =
                 [passed |-> FALSE, notes |-> "Terminated by candidate"]]_vars

\* C6: a tab-switch auto-termination checks the pending decision first: when
\* the decision was received before the third tab switch, the session
\* finalizes with the agent's {passed, reason}, not the security result.
C6_TabSwitchAfterDecisionKeepsDecision ==
    [][(TabHidden /\ pendingDecision # NoDecision /\ results' # results)
          => LastResult(results') = ResultOf(pendingDecision)]_vars

\* C9: once the time budget is zero and no decision has arrived, the session
\* is force-finalized: a decision arrives or a result is emitted.
C9_TimeUpForcesResult ==
    (isSessionActive /\ timeLeft = 0 /\ ~hasCalledNotify)
        ~> (hasCalledNotify \/ results # << >>)

\* a transient drop is handled: an error event, a rejected connect call, or a
\* close event one second or more after the connect attempt started
TransientDrop ==
    /\ ~isIntentionalClose
    /\ \/ ConnError
       \/ ConnRejected
       \/ ConnClosed /\ connectAge >= FastCloseMs

\* C7 as stated: the third consecutive transient drop with no successful open
\* in between puts the state in Error.
C7_ThirdDropIsError ==
    [][(TransientDrop /\ retryCount = 2) => connectionState' = "error"]_vars

\* the delay before the n-th reconnect attempt, in milliseconds
ReconnectDelayMs(n) ==
    CASE n = 1 -> 1000
      [] n = 2 -> 2000
      [] n = 3 -> 4000
      [] OTHER -> 0

\* C7: reconnect attempts are bounded: at most 3 reconnects are scheduled
\* after the last successful open, the n-th with a delay of 1s, 2s, 4s (never
\* above 5s); the transient drop that follows 3 scheduled reconnects (the 4th
\* consecutive drop) puts the state in Error and schedules no attempt.
C7_BoundedReconnects ==
    /\ [](retryCount <= 3)
    /\ [](\A i \in DOMAIN retryTimers : retryTimers[i] \in {1000, 2000, 4000})
    /\ [][Len(retryTimers') > Len(retryTimers)
             => /\ retryCount < 3
                /\ retryCount' = retryCount + 1
                /\ retryTimers' = Append(retryTimers, ReconnectDelayMs(retryCount'))
                /\ connectionState' = "reconnecting"]_vars
    /\ [][(TransientDrop /\ retryCount < 3)
             => Len(retryTimers') = Len(retryTimers) + 1]_vars
    /\ [][(TransientDrop /\ retryCount = 3)
             => /\ connectionState' = "error"
                /\ retryCount' = 3
                /\ retryTimers' = retryTimers]_vars

\* four connect attempts were made, the first and three reconnects, each was
\* dropped, and the state is Error with no reconnect scheduled
C7_Witness ==
    /\ connectionState = "error"
    /\ errorMsg = MsgLost
    /\ retryCount = 3
    /\ retryTimers = << >>
    /\ nconn >= 4
    /\ \A c \in 1..4 : conn[c] \in {"errored", "closed"}

\* C8: a close event, an error event or a rejected connect call less than one
\* second after the connect attempt started puts the state in Error at once,
\* with the retry counter unchanged and no reconnect timer scheduled.
C8_FastFailureIsError ==
    [][(/\ ConnError \/ ConnRejected \/ ConnClosed
        /\ connectAge < FastCloseMs
        /\ ~isIntentionalClose)
          => /\ connectionState' = "error"
             /\ retryCount' = retryCount
             /\ retryTimers' = retryTimers]_vars

\* an animation frame that measures speech energy above the threshold
LoudFrame ==
    /\ vizLoop
    /\ ~isIntentionalClose
    /\ Apply(updateVisualizers(St, TRUE))

\* C10: a silence strike is counted only after more than 8s without observed
\* speech while the agent is not speaking; strikes 1 and 2 send the check-in
\* message and strike 3 sends the forced-fail message; speech energy above
\* the threshold resets the strike counter to zero, and nothing else lowers
\* it.
C10_SilenceStrikes ==
    /\ [][strikeCount' > strikeCount
             => /\ strikeCount' = strikeCount + 1
                /\ sinceSpeech > 8
                /\ ~isAiSpeaking
                /\ (session # 0 /\ strikeCount' \in {1, 2})
                       => lastSent' = [kind |-> "checkin", strike |-> strikeCount']
                /\ (session # 0 /\ strikeCount' = 3)
                       => lastSent' = [kind |-> "fail", strike |-> 3]]_vars
    /\ [][lastSent' # lastSent => strikeCount' = strikeCount + 1]_vars
    /\ [][LoudFrame => strikeCount' = 0 /\ sinceSpeech' = 0]_vars
    /\ [][strikeCount' < strikeCount => strikeCount' = 0 /\ sinceSpeech' = 0]_vars

\* the third strike in a row sent the forced-fail message
C10_Witness ==
    /\ strikeCount = 3
    /\ lastSent = [kind |-> "fail", strike |-> 3]

\* C11: a buffer starts at the later of the clock and nextStartTimeRef, which
\* then is the buffer's end; without a flush since the previous buffer,
\* nextStartTimeRef does not decrease and the buffer starts no earlier than
\* the previous buffer's end; after a flush it starts at the clock; only a
\* flush lowers nextStartTimeRef.
C11_PlaybackScheduling ==
    /\ [][sources' > sources
             => /\ scheduled'.start =
                       IF nextStartTime > clock THEN nextStartTime ELSE clock
                /\ nextStartTime' = scheduled'.end
                /\ scheduled'.end > scheduled'.start
                /\ ~scheduled.flushed
                       => /\ nextStartTime' >= nextStartTime
                          /\ scheduled'.start >= scheduled.end
                /\ scheduled.flushed => scheduled'.start = clock]_vars
    /\ [][nextStartTime' < nextStartTime => scheduled'.flushed]_vars

\* two buffers were started with no flush in between and both are active: the
\* second starts where the first ends
C11_Witness ==
    /\ sources = 2
    /\ ~scheduled.flushed
    /\ scheduled.start >= 1
    /\ scheduled.start > clock

\* C12: every entry of the transcript has a text that is trimmed and not
\* empty; the transcript only grows by appending, so its entries stay in the
\* order of their commits, and the transcript handed to onComplete is the
\* transcript as it was at that commit.
C12_TranscriptEntries ==
    /\ [](\A i \in DOMAIN transcript :
             /\ transcript[i].text # << >>
             /\ Head(transcript[i].text) # " "
             /\ trim(transcript[i].text) = transcript[i].text)
    /\ [][/\ Len(transcript') >= Len(transcript)
          /\ SubSeq(transcript', 1, Len(transcript)) = transcript]_vars
    /\ [](/\ Len(emitted) <= Len(transcript)
          /\ emitted = SubSeq(transcript, 1, Len(emitted)))

\* a partial agent text was committed by an interruption, the candidate's
\* text by the final flush after it, and a buffer holding only white space was
\* not appended
C12_Witness ==
    /\ results # << >>
    /\ emitted = << [speaker |-> "ai", text |-> << "w" >> \o InterruptedMark],
                    [speaker |-> "user", text |-> << "w" >>] >>
    /\ currentAi = << " " >>

\* C13: once the session is finalized (cleanup has run and a result was
\* emitted) no callback changes connectionState: not an open, a close, an
\* error or a reconnect timer that comes later.
C13_EndedIsFinal ==
    [][results # << >> => connectionState' = connectionState]_vars

\* the first connect attempt opened after the session was finalized, and the
\* state is still the one of an attempt in progress
C13_Witness ==
    /\ results # << >>
    /\ conn[1] = "open"
    /\ connectionState = "connecting"

C15_NoSendAfterShutdown ==
    [][isIntentionalClose
          => /\ timeUpSent' = timeUpSent
             /\ lastSent' = lastSent]_vars

\* C16: after the session is finalized every held resource is released: the
\* media tracks are stopped, the recorder is not recording, no source is
\* active, no reconnect timer is pending, the silence interval is cleared,
\* and the transport handle is dropped and its connection closed.
C16_ResourcesReleased ==
    results # << >>
        => /\ ~stream
           /\ ~audioContext
           /\ mediaRecorder # "recording"
           /\ sources = 0
           /\ ~silenceInterval
           /\ retryTimers = << >>
           /\ session = 0
           /\ \A c \in ConnIds : conn[c] \notin {"connecting", "open"}

\* C17: the open callback resets the retry counter to zero and, while the
\* component is mounted, sets connectionState to connected; no other step
\* lowers the retry counter.
C17_OnlyOpenResetsRetries ==
    /\ [][ConnOpened
             => /\ retryCount' = 0
                /\ Mounted => connectionState' = "connected"]_vars
    /\ [][retryCount' < retryCount => ConnOpened]_vars

\* a reconnect attempt opened after a drop: the counter is back at zero
C17_Witness ==
    /\ Mounted
    /\ nconn = 2
    /\ conn[1] \in {"errored", "closed"}
    /\ conn[2] = "open"
    /\ connectionState = "connected"
    /\ retryCount = 0

\* C18: once connectionState is error it stays error and no connect attempt
\* is started any more.
C18_ErrorIsAbsorbing ==
    [][connectionState = "error"
          => /\ connectionState' = "error"
             /\ nconn' = nconn]_vars

\* C19: whenever a reconnect attempt starts, the stored transport handle has
\* been discarded, and the handle that is stored is never the one of an
\* attempt older than the latest.
C19_NoHandleReuse ==
    /\ [][(nconn' > nconn /\ nconn >= 1) => session = 0]_vars
    /\ [](session \in {0, nconn})

\* C20: while the session runs and no decode is in progress, isAiSpeakingRef
\* is true exactly when a source is active.
C20_SpeakingIffActive ==
    (~isIntentionalClose /\ decoding = {})
        => (isAiSpeaking <=> sources > 0)

\* C21: the strike counter is raised and an escalation message is sent only
\* by a check of the silence interval that finds more than 8s since the last
\* observed speech while isAiSpeakingRef is false; no step taken while
\* isAiSpeakingRef is true raises the counter or sends an escalation.
C21_StrikeOnlyOnSilence ==
    /\ [][(strikeCount' > strikeCount \/ lastSent' # lastSent)
             => /\ SilenceCheck(MaxStrikes)
                /\ sinceSpeech * SecondMs > SilenceThresholdMs
                /\ ~isAiSpeaking]_vars
    /\ [][isAiSpeaking
             => /\ strikeCount' <= strikeCount
                /\ lastSent' = lastSent]_vars

\* the first strike was issued while the agent was silent, and the agent
\* started to speak afterwards
C21_Witness ==
    /\ strikeCount = 1
    /\ lastSent = [kind |-> "checkin", strike |-> 1]
    /\ isAiSpeaking
    /\ sinceSpeech * SecondMs > SilenceThresholdMs

\* C22: a strike restarts the silence timer from zero, the timer advances
\* only with the passing of time, one second per step and never in the step
\* of a strike, and a check that finds 8s or less issues no strike: two
\* strikes are more than 8s apart, and two checks one second apart never
\* both issue a strike.
C22_StrikeRestartsSilenceTimer ==
    /\ [][strikeCount' > strikeCount
             => /\ sinceSpeech * SecondMs > SilenceThresholdMs
                /\ sinceSpeech' = 0]_vars
    /\ [][sinceSpeech' > sinceSpeech
             => /\ sinceSpeech' = sinceSpeech + 1
                /\ strikeCount' = strikeCount
                /\ lastSent' = lastSent]_vars
    /\ [][(SilenceCheck(MaxStrikes) /\ sinceSpeech * SecondMs <= SilenceThresholdMs)
             => /\ strikeCount' = strikeCount
                /\ lastSent' = lastSent]_vars

\* the second strike in a row was just issued: the silence timer is back at
\* zero
C22_Witness ==
    /\ strikeCount = 2
    /\ lastSent = [kind |-> "checkin", strike |-> 2]
    /\ sinceSpeech = 0
    /\ ~isAiSpeaking

\* C23: timeLeft never increases and never goes below zero; a step changes it
\* only by counting one second down while connectionState is connected and no
\* result has been emitted, so no step taken in the states initializing,
\* connecting, reconnecting or error changes it.
C23_TimerCountsWhileConnected ==
    /\ [](timeLeft >= 0)
    /\ [][timeLeft' <= timeLeft]_vars
    /\ [][timeLeft' # timeLeft
             => /\ timeLeft' = timeLeft - 1
                /\ connectionState = "connected"
                /\ ~showContactOverlay
                /\ results = << >>]_vars
    /\ [][(connectionState \in {"idle", "initializing", "connecting",
                                 "reconnecting", "error"})
             => timeLeft' = timeLeft]_vars

\* the timer counted down while connected, the transport dropped, and the
\* timer stands still while a reconnect is awaited
C23_Witness ==
    /\ timeLeft = TimeBudget - 1
    /\ connectionState = "reconnecting"
    /\ results = << >>

\* the messages that report an interruption
Interruptions == {m \in TranscriptMessages : m.interrupted}

\* C24: when a message reporting an interruption is handled, an agent buffer
\* with visible text (the transcription carried by the message included) is
\* appended at once as one agent entry whose text ends with the interruption
\* mark, and is cleared; a buffer without visible text is left as it is and
\* nothing is appended; the candidate's buffer is neither committed nor
\* cleared, and the earlier entries are unchanged.
C24_InterruptionCommitsAgentBuffer ==
    [][\A m \in Interruptions :
          (ServerMessage({m}) /\ ~isIntentionalClose)
              => LET ai == currentAi \o m.outputText
                 IN /\ currentInput' = currentInput \o m.inputText
                    /\ IF trim(ai) # << >>
                       THEN /\ transcript' =
                                   Append(transcript,
                                          [speaker |-> "ai",
                                           text |-> trim(ai) \o InterruptedMark])
                            /\ currentAi' = << >>
                       ELSE /\ transcript' = transcript
                            /\ currentAi' = ai]_vars

\* an interruption committed the agent's partial text while the candidate's
\* buffer held text, which is still there
C24_Witness ==
    /\ results = << >>
    /\ transcript = << [speaker |-> "ai", text |-> << "w" >> \o InterruptedMark] >>
    /\ currentAi = << >>
    /\ currentInput = << "w" >>

\* C25: in the step that emits a result, neither buffer holds visible text
\* any more: whatever was accepted before the emission is in the emitted
\* transcript.
C25_BuffersFlushedAtEmission ==
    [][results' # results
          => /\ trim(currentInput') = << >>
             /\ trim(currentAi') = << >>]_vars

\* C26: a frame captured while sessionRef is empty is skipped, and a frame
\* whose send throws is dropped: the step of a frame changes neither
\* connectionState nor the retry counter nor the reconnect timers nor the
\* handle and starts no connect attempt, and a frame is handed to the
\* transport only in the step that captured it, at most once.
C26_FailedSendIsSwallowed ==
    /\ [][AudioFrame
             => /\ connectionState' = connectionState
                /\ errorMsg' = errorMsg
                /\ retryCount' = retryCount
                /\ retryTimers' = retryTimers
                /\ retryRefPending' = retryRefPending
                /\ session' = session
                /\ nconn' = nconn]_vars
    /\ [][(AudioFrame /\ session = 0)
             => /\ framesHanded' = framesHanded
                /\ lastFrame' = "skipped"]_vars
    /\ [][framesHanded' # framesHanded
             => /\ AudioFrame
                /\ session # 0
                /\ framesCaptured' = framesCaptured + 1
                /\ framesHanded' = framesHanded + 1]_vars
    /\ [](framesHanded <= framesCaptured)

\* a frame was skipped while the transport was being connected, the send of
\* the next frame threw, and the connection is as it was
C26_Witness ==
    /\ framesCaptured = 2
    /\ framesHanded = 1
    /\ lastFrame = "threw"
    /\ connectionState = "connected"
    /\ retryCount = 0
    /\ retryTimers = << >>

\* C27: every frame captured while sessionRef holds a handle and the session
\* is not shut down is handed to the transport, whatever its energy.
C27_EveryFrameIsSent ==
    [][(AudioFrame /\ session # 0 /\ ~isIntentionalClose)
          => framesHanded' = framesHanded + 1]_vars

\* C28: when the recorder cannot be set up, initializeMedia goes on to the
\* connect attempt as it does with a recorder; a session without a recorder
\* waits for no stop event and the End button emits its result at once; a
\* blob exists only if the recorder produced data, and a result emitted
\* without a blob carries no recording.
C28_RecorderFaultIsNotFatal ==
    /\ [][(MediaGranted /\ ~isIntentionalClose /\ mediaRecorder' = "null")
             => /\ nconn' = nconn + 1
                /\ connectionState' = "connecting"
                /\ errorMsg' = errorMsg]_vars
    /\ [](mediaRecorder = "null"
            => /\ ~stopPending
               /\ ~recordedVideoBlob
               /\ finalizeTimers = {})
    /\ [][(ClickEnd /\ mediaRecorder = "null")
             => /\ Len(results') = Len(results) + 1
                /\ emittedVideo' = "absent"]_vars
    /\ [](recordedVideoBlob => videoChunks)
    /\ [][(results' # results /\ ~recordedVideoBlob)
             => emittedVideo' = "absent"]_vars

\* the recorder could not be set up, the transport opened all the same, and
\* the result was emitted without a recording
C28_Witness ==
    /\ mediaRecorder = "null"
    /\ \E c \in ConnIds : conn[c] = "open"
    /\ Len(results) = 1
    /\ emittedVideo = "absent"

\* C29: a finalization deferred by handleEndSession is always carried out,
\* whether the stop event of the recorder fires or not; the stop event
\* assembles the blob from the chunks recorded, and a result emitted after
\* the blob was assembled carries the recording.
C29_BoundedWaitForRecorder ==
    /\ (finalizeTimers # {}) ~> (finalizeTimers = {} /\ results # << >>)
    /\ [][RecorderStopped
             => /\ ~stopPending'
                /\ videoChunks' => recordedVideoBlob']_vars
    /\ [][(results' # results /\ recordedVideoBlob)
             => emittedVideo' = "blob"]_vars

\* the stop event fired before the timer and the one result carries the
\* recording
C29_Witness ==
    /\ Len(results) = 1
    /\ mediaRecorder = "inactive"
    /\ ~stopPending
    /\ recordedVideoBlob
    /\ emittedVideo = "blob"

\* C30: when getUserMedia rejects, connectionState becomes error with the
\* access-denied message, and the step starts no connect attempt and sets no
\* reconnect timer; from then on the state stays error, no connect attempt is
\* ever made, no reconnect timer exists and no capture device is held.
C30_MediaFailureIsFatal ==
    /\ [][(MediaDenied /\ Mounted)
             => /\ connectionState' = "error"
                /\ errorMsg' = MsgMedia
                /\ nconn' = nconn
                /\ retryCount' = retryCount
                /\ retryTimers' = retryTimers]_vars
    /\ [](errorMsg = MsgMedia
            => /\ connectionState = "error"
               /\ nconn = 0
               /\ session = 0
               /\ retryTimers = << >>
               /\ ~retryRefPending
               /\ ~stream
               /\ ~mediaPending)

\* the acquisition failed and the session was ended afterwards: still no
\* connect attempt was made
C30_Witness ==
    /\ errorMsg = MsgMedia
    /\ connectionState = "error"
    /\ results # << >>
    /\ nconn = 0

\* C31: once a decision call was accepted, the tool response of that call has
\* been sent, and of no other call; it was sent before any result was
\* emitted, and a call that was ignored as a duplicate is never acknowledged.
C31_DecisionAcknowledged ==
    /\ [](hasCalledNotify => acked = pendingDecision)
    /\ [](acked # NoDecision => acked = pendingDecision)
    /\ [][acked # NoDecision => acked' = acked]_vars

\* the messages that report an interruption and carry nothing else
Flushes == {m \in AudioMessages : m.interrupted}

\* C32: the message of an interruption empties sourcesRef; sourcesRef grows
\* only by one buffer at a time, when a decoded buffer is scheduled, and the
\* ended event of a buffer takes that buffer out; so while sourcesRef is not
\* empty a buffer was scheduled since the last flush, and once cleanup has
\* closed the audio context sourcesRef is empty.
C32_ActiveSetAfterFlush ==
    /\ [][(ServerMessage(Flushes) /\ ~isIntentionalClose) => sources' = 0]_vars
    /\ [](sources > 0 => ~scheduled.flushed)
    /\ [][sources' > sources
             => /\ DecodeDone
                /\ sources' = sources + 1
                /\ ~scheduled'.flushed]_vars
    /\ [][SourceEnded => sources' = sources - 1]_vars
    /\ [](~audioContext => sources = 0)

\* two buffers were active and not played to their end when an interruption
\* emptied sourcesRef
C32_Witness ==
    /\ sources = 0
    /\ scheduled.flushed
    /\ scheduled.start >= 1
    /\ scheduled.end > clock
    /\ nextStartTime = 0
    /\ ~isIntentionalClose

\* C33: at most 3 attempts are made; a response that is ok ends the upload
\* with success and only such a response does; no attempt follows a response
\* with a 4xx status; the attempts of a failing upload are 2s and then 4s
\* apart.
C33_UploadRetries ==
    LET n == Len(upload.responses)
    IN /\ upload.attempt <= 3
       /\ n <= 3
       /\ \A i \in 1..n :
              i < n \/ upload.phase = "wait"
                  => /\ ~Ok(upload.responses[i])
                     /\ ~(upload.responses[i].status \in 400..499)
       /\ upload.result = "success"
              <=> (n > 0 /\ Ok(upload.responses[n]))
       /\ upload.waited \in {<< >>, << 2000 >>, << 2000, 4000 >>}
       /\ (upload.result = "failure"
              /\ \A i \in 1..n : ~(upload.responses[i].status \in 400..499))
              => upload.waited = << 2000, 4000 >>

\* the requests of ip let through in the ticks from..to
RECURSIVE GrantedIn(_, _, _)
GrantedIn(ip, from, to) ==
    IF from > to \/ from > MaxNow THEN 0
    ELSE granted[ip][from] + GrantedIn(ip, from + 1, to)

\* C34: for every IP and every interval of 60 seconds, at most 5 of the
\* requests made in the interval are let through.
C34_FivePerMinute ==
    \A ip \in Ips, t \in 0..MaxNow :
        GrantedIn(ip, t, t + (WindowMs \div TickMs) - 1) <= RateLimit

\* C35: when the decode of a buffer whose message was received before an
\* interruption completes, the buffer is discarded: sourcesRef does not
\* grow, nextStartTimeRef and isAiSpeakingRef stay as they are; likewise when
\* it completes after cleanup.  Every pending decode was received before the
\* last flush when nothing was scheduled since that flush and isAiSpeakingRef,
\* which every audio chunk sets on receipt, is false.
C35_StaleBufferDiscarded ==
    [][(DecodeDone /\ ((scheduled.flushed /\ ~isAiSpeaking) \/ ~audioContext))
          => /\ sources' <= sources
             /\ nextStartTime' = nextStartTime
             /\ isAiSpeaking' = isAiSpeaking]_vars

\* C36: at most one reconnect timer is pending and at most one connect
\* attempt is in flight; the close event of a connection whose error event
\* was handled already counts no second drop and sets no second timer.
C36_OneReconnectPerDrop ==
    /\ [](Len(retryTimers) <= 1)
    /\ [](Cardinality({c \in ConnIds : conn[c] = "connecting"}) <= 1)
    /\ [][\A c \in ConnIds :
              (conn[c] = "errored" /\ conn'[c] = "closed")
                  => /\ retryCount' = retryCount
                     /\ retryTimers' = retryTimers]_vars

\* C37: the strike counter never exceeds the strike limit, and the forced-fail
\* message is sent at most once while the silence lasts: a strike after the
\* third sends nothing.
C37_StrikesStopAtLimit ==
    /\ [](strikeCount <= StrikeLimit)
    /\ [][(lastSent.kind = "fail" /\ strikeCount' > strikeCount)
             => lastSent' = lastSent]_vars

\* C38: the time-limit message is sent at most once in a session, and only
\* while no decision call has been accepted.
C38_TimeUpSentOnce ==
    /\ [](timeUpSent <= 1)
    /\ [][timeUpSent' # timeUpSent => ~hasCalledNotify']_vars

\* C39: the first and the second hidden-tab event of an active session end
\* nothing; the third starts the security termination; a fourth or later one
\* starts no other termination: it emits no result and defers no
\* finalization.
C39_ThirdTabSwitchOnly ==
    /\ [][(TabHidden /\ tabSwitchCount + 1 < TabSwitchLimit)
             => /\ results' = results
                /\ finalizeTimers' = finalizeTimers
                /\ isIntentionalClose' = isIntentionalClose]_vars
    /\ [][(TabHidden /\ tabSwitchCount + 1 = TabSwitchLimit)
             => \/ Len(results') = Len(results) + 1
                \/ finalizeTimers' # finalizeTimers]_vars
    /\ [][(TabHidden /\ tabSwitchCount + 1 > TabSwitchLimit)
             => /\ results' = results
                /\ finalizeTimers' = finalizeTimers]_vars

\* C40: a message that carries the first notifyResult call and is handled
\* before the intentional shutdown has its call taken as the decision, at
\* once or after the decode of the audio it also carries, whatever its
\* interruption flag and its audio part are.
C40_DecisionCallNeverDropped ==
    [][\A m \in DecisionMessages :
          (ServerMessage({m}) /\ ~isIntentionalClose /\ ~hasCalledNotify)
              => \/ /\ hasCalledNotify'
                    /\ pendingDecision' = Head(m.calls)
                    /\ \/ \E i \in DOMAIN results' :
                              /\ results'[i].passed = Head(m.calls).passed
                              /\ results'[i].notes = Head(m.calls).reason
                       \/ \E f \in finalizeTimers' :
                              /\ f.passed = Head(m.calls).passed
                              /\ f.reason = Head(m.calls).reason
                 \/ \E d \in decoding' \ decoding : d.calls = m.calls]_vars

====
